---- MODULE Spec2Model ----
(***************************************************************************)
(* Model of the two labelling tools of the repository:                     *)
(*   backend/custom_picker.py    ("picker":  click a point, Save Sample)   *)
(*   backend/sampler_sentinel.py ("sampler": random point, Submit & Next)  *)
(*                                                                         *)
(* Both are Streamlit scripts: every interaction re-executes the script    *)
(* from the top for one browser session.  A run loads the JSON file into   *)
(* `records`, and a save appends one record per backend feature and        *)
(* rewrites the JSON file and the parquet snapshot in full.                *)
(*                                                                         *)
(* The JSON file is modelled as the text it holds: the records written so  *)
(* far and whether the array was written to its end.  open(path, "w")      *)
(* truncates; a process that dies while dumping leaves a prefix.  The      *)
(* parquet write is taken as one step.                                     *)
(***************************************************************************)
EXTENDS Integers, Sequences, FiniteSets, TLC

\* ---------------------------------------------------------------- bounds
MaxRecords == 2      \* longest record list a save may produce
MaxFeats == 2        \* longest feature list the backend returns

\* ------------------------------------------------------ program constants
NumBands == 64       \* range(64)
max_tries == 6       \* get_random_valid_point(max_tries=6)
tries == 4           \* fetch_valid_thumbnail(tries=4)
MinBytes == 10000    \* len(r.content) > 10000
StatusOK == 200      \* r.status_code == 200

None == "None"       \* Python None / JSON null
Unset == "Unset"     \* key absent from st.session_state
SP == " "

\* Browser sessions: one in Spec, both in SpecConc.
Sessions == {1, 2}
Tools == {"picker", "sampler"}
Points == {"P1", "P2"}

\* band_names = [f"A{i:02d}" for i in range(64)]; a band name is modelled by
\* its number, so "A07" is 7.  Key 64 stands for a property that is no band.
band_names == [i \in 1..NumBands |-> i - 1]

\* dict.get(b): the value, or None when the key is absent.
Get(props, b) == IF b \in DOMAIN props THEN props[b] ELSE None

\* ------------------------------------------------------- backend features
\* The property dicts of the features the sessions are run against: one with
\* the first half of the bands (and a key that is no band), one with no band.
HalfProps == [b \in (0..31) \cup {NumBands} |-> "0.25"]
NoProps == [b \in {NumBands} |-> "id"]

Feature(lon, lat, props) ==
    [geometry |-> [coordinates |-> <<lon, lat>>], properties |-> props]

Features ==
    { Feature(11, 41, HalfProps), Feature(12, 42, NoProps) }

SeqsUpTo(S, n) == UNION { [1..k -> S] : k \in 0..n }


\* Sidebar inputs.
ThumbMeters == {1000}
ScaleChoices == {100}

\* Caption text typed by the user: a string as its characters.
Captions == { <<SP>>, <<SP, "a", SP>> }

RECURSIVE LStrip(_)
LStrip(c) == IF c # <<>> /\ Head(c) = SP THEN LStrip(Tail(c)) ELSE c

RECURSIVE RStrip(_)
RStrip(c) ==
    IF c # <<>> /\ c[Len(c)] = SP THEN RStrip(SubSeq(c, 1, Len(c) - 1)) ELSE c

\* Mutant: the caption is used as typed.
Mut_Strip(c) == c

\* str.strip()
Strip(c) == RStrip(LStrip(c))

\* ------------------------------------------------------------ the record
\* Mutant: only the bands the feature carries.
Mut_Vals(f) ==
    LET present == SelectSeq(band_names, LAMBDA b : b \in DOMAIN f.properties)
    IN  [i \in 1..Len(present) |-> f.properties[present[i]]]

\* vals = [f["properties"].get(b) for b in band_names]
Vals(f) == [i \in 1..NumBands |-> Get(f.properties, band_names[i])]

MakeRecord(f, caption, thumb, scale) ==
    [ lon |-> f.geometry.coordinates[1],
      lat |-> f.geometry.coordinates[2],
      caption |-> Strip(caption),
      alphaearth |-> Vals(f),
      thumb_m |-> thumb,
      sample_scale |-> scale ]

\* Mutant: a feature without band A00 is skipped.
RECURSIVE Mut_AppendFeats(_, _, _, _, _)
Mut_AppendFeats(recs, feats, caption, thumb, scale) ==
    IF feats = <<>> THEN recs
    ELSE Mut_AppendFeats(
             IF 0 \in DOMAIN Head(feats).properties
             THEN Append(recs, MakeRecord(Head(feats), caption, thumb, scale))
             ELSE recs,
             Tail(feats), caption, thumb, scale)

\* for f in feats: records.append({...})
RECURSIVE AppendFeats(_, _, _, _, _)
AppendFeats(recs, feats, caption, thumb, scale) ==
    IF feats = <<>> THEN recs
    ELSE AppendFeats(Append(recs, MakeRecord(Head(feats), caption, thumb, scale)),
                     Tail(feats), caption, thumb, scale)

\* ------------------------------------------------------------- the files
NoJson == [exists |-> FALSE, complete |-> FALSE, recs |-> <<>>]

\* open(JSON_PATH, "w"): the file exists and is empty.
OpenedJson == [exists |-> TRUE, complete |-> FALSE, recs |-> <<>>]

\* json.dump(records, fp, indent=2) run to its end.
DumpedJson(recs) == [exists |-> TRUE, complete |-> TRUE, recs |-> recs]

\* The dump cut short after k records.
TornJson(recs, k) ==
    [exists |-> TRUE, complete |-> FALSE, recs |-> SubSeq(recs, 1, k)]

\* records = []; if os.path.exists(JSON_PATH): try: json.load(...) except: pass
LoadRecords(file) == IF file.exists /\ file.complete THEN file.recs ELSE <<>>

NoParquet == [exists |-> FALSE, columns |-> <<>>, rows |-> <<>>]

PickerColumns ==
    <<"lon", "lat", "caption", "alphaearth", "thumb_m", "sample_scale">>
SamplerColumns ==
    <<"lon", "lat", "caption", "thumb_m", "sample_scale", "alphaearth">>

\* A table: the column names and one tuple per row, in column order.
Table(columns, recs) ==
    [ exists |-> TRUE,
      columns |-> IF recs = <<>> THEN <<>> ELSE columns,
      rows |-> [i \in 1..Len(recs) |->
                  [c \in 1..Len(columns) |-> recs[i][columns[c]]]] ]

\* pq.write_table(pa.Table.from_pandas(pd.DataFrame(records)), PARQUET_PATH)
PickerParquet(recs) == Table(PickerColumns, recs)

\* Mutant: lon and lat change places in the table.
Mut_save_parquet(recs) ==
    Table(SamplerColumns,
          [i \in 1..Len(recs) |->
              [recs[i] EXCEPT !.lon = recs[i].lat, !.lat = recs[i].lon]])

\* save_parquet(records, path)
save_parquet(recs) == Table(SamplerColumns, recs)

WriteParquet(t, recs) ==
    IF t = "sampler" THEN save_parquet(recs) ELSE PickerParquet(recs)


\* --------------------------------------------------- the two retry loops
\* One random draw: the point drawn and what reduceRegion(...).get("B4")
\* .getInfo() gives for it: a mean, None (no coverage), or an exception.
Coverage == {None, "0.3", "raise"}
Draw == [pt : Points, val : Coverage]

\* for _ in range(max_tries): ... if val is not None: return pt, lon, lat, square
\* return None, None, None, None
RECURSIVE PointFrom(_, _)
PointFrom(d, i) ==
    IF i > max_tries THEN [raised |-> FALSE, pt |-> None, draws |-> max_tries]
    ELSE IF d[i].val = "raise" THEN [raised |-> TRUE, pt |-> None, draws |-> i]
    ELSE IF d[i].val # None THEN [raised |-> FALSE, pt |-> d[i].pt, draws |-> i]
    ELSE PointFrom(d, i + 1)

get_random_valid_point(d) == PointFrom(d, 1)

\* One thumbnail attempt: getThumbURL/requests.get raise, or a response with
\* a status, a size, and whether PILImage.open accepts its bytes.
Resp ==
    [raised : BOOLEAN, status : {StatusOK, 429},
     size : {MinBytes, MinBytes + 1}, opens : BOOLEAN]

AttemptOK(r) ==
    ~r.raised /\ r.status = StatusOK /\ r.size > MinBytes /\ r.opens

\* for _ in range(tries): try: ... return url, img  except: sleep
\* return None, None.   img is the number of the attempt returned, 0 for None.
RECURSIVE ThumbFrom(_, _)
ThumbFrom(t, i) ==
    IF i > tries THEN [img |-> 0, attempts |-> tries]
    ELSE IF AttemptOK(t[i]) THEN [img |-> i, attempts |-> i]
    ELSE ThumbFrom(t, i + 1)

\* Mutant: the size of the response is not looked at.
RECURSIVE Mut_ThumbFrom(_, _)
Mut_ThumbFrom(t, i) ==
    IF i > tries THEN [img |-> 0, attempts |-> tries]
    ELSE IF ~t[i].raised /\ t[i].status = StatusOK /\ t[i].opens
    THEN [img |-> i, attempts |-> i]
    ELSE Mut_ThumbFrom(t, i + 1)

Mut_fetch_valid_thumbnail(t) == Mut_ThumbFrom(t, 1)

fetch_valid_thumbnail(t) == ThumbFrom(t, 1)

\* Backend behaviours the sessions are run against: coverage found at draw k
\* (the draws before it lack coverage and are of the other point), never, or
\* an exception at draw k.
OtherPoint(p) == CHOOSE q \in Points : q # p

DrawSeq(k, p, v) ==
    [i \in 1..max_tries |->
        IF i < k THEN [pt |-> OtherPoint(p), val |-> None]
        ELSE IF i = k THEN [pt |-> p, val |-> v]
        ELSE [pt |-> OtherPoint(p), val |-> "0.3"]]

DrawSeqs ==
    { DrawSeq(1, "P1", "0.3"), DrawSeq(max_tries, "P2", "0.3"),
      DrawSeq(max_tries + 1, "P1", None), DrawSeq(2, "P1", "raise") }

BadResp(kind) ==
    [raised |-> kind = "raise", status |-> IF kind = "status" THEN 429 ELSE StatusOK,
     size |-> IF kind = "size" THEN MinBytes ELSE MinBytes + 1,
     opens |-> kind # "open"]

ThumbSeq(k, kind) ==
    [i \in 1..tries |-> IF i < k THEN BadResp(kind) ELSE BadResp("none")]

ThumbSeqs ==
    { ThumbSeq(1, "raise"), ThumbSeq(tries, "size"), ThumbSeq(tries + 1, "status") }

\* ------------------------------------------------------------- the state
VARIABLES
    tool,         \* which script the sessions run
    live,         \* the browser sessions
    steady,       \* whether the backend always answers at the first try
    json,         \* the JSON file
    parquet,      \* the parquet snapshot
    pc,           \* where each session's current run stands
    view,         \* what each session shows
    initialized,  \* st.session_state.initialized
    current,      \* st.session_state.current
    records,      \* the run's in-memory list
    loaded,       \* the JSON file as the run found it
    feats,        \* the features the backend returned to the run's save
    caption,      \* the caption text of the run
    thumbm,       \* THUMB_METERS of the run
    event,        \* the interaction the last run served
    fetch,        \* what fetch_valid_thumbnail returned in the last run
    drew,         \* whether the last run called get_random_valid_point
    reported,     \* the count of the last st.success message
    retryIn,      \* input of the retry loop under test
    retryOut      \* its result

vars ==
    <<tool, live, steady, json, parquet, pc, view, initialized, current, records, loaded,
      feats, caption, thumbm, event, fetch, drew, reported, retryIn,
      retryOut>>

files == <<json, parquet>>
session == <<pc, view, initialized, current, records, loaded, feats, caption,
             thumbm, event, fetch, drew, reported>>
retry == <<retryIn, retryOut>>

NoFetch == [img |-> 0, attempts |-> 0]
FirstView(t) == IF t = "sampler" THEN "landing" ELSE "map"

\* What the backend may do in a run.
DrawChoices == IF steady THEN {DrawSeq(1, "P1", "0.3")} ELSE DrawSeqs
ThumbChoices == IF steady THEN {ThumbSeq(1, "raise")} ELSE ThumbSeqs
FeatureLists == SeqsUpTo(Features, MaxFeats)
FeatureChoices == IF steady THEN SeqsUpTo(Features, 1) ELSE FeatureLists

NoRetry == [kind |-> "none", seq |-> <<>>]

InitWith(sessions, tools, st) ==
    /\ tool \in tools
    /\ live = sessions
    /\ steady = st
    /\ json = NoJson
    /\ parquet = NoParquet
    /\ pc = [s \in Sessions |-> "idle"]
    /\ view = [s \in Sessions |-> FirstView(tool)]
    /\ initialized = [s \in Sessions |-> FALSE]
    /\ current = [s \in Sessions |-> Unset]
    /\ records = [s \in Sessions |-> <<>>]
    /\ loaded = [s \in Sessions |-> NoJson]
    /\ feats = [s \in Sessions |-> <<>>]
    /\ caption = [s \in Sessions |-> <<>>]
    /\ thumbm = [s \in Sessions |-> 1000]
    /\ event = [s \in Sessions |-> "none"]
    /\ fetch = [s \in Sessions |-> NoFetch]
    /\ drew = [s \in Sessions |-> FALSE]
    /\ reported = [s \in Sessions |-> 0]
    /\ retryOut = NoRetry

Init == InitWith({1}, Tools, FALSE) /\ retryIn = NoRetry
InitConc == InitWith(Sessions, Tools, TRUE) /\ retryIn = NoRetry


\* ------------------------------------------------------ sampler: one run
\* Mutant: the run goes on to the caption although no image loaded.
Mut_SamplingLoop(cur, d1, t, d2) ==
    LET c1 == IF cur = Unset THEN get_random_valid_point(d1)
              ELSE [raised |-> FALSE, pt |-> cur, draws |-> 0]
        th == fetch_valid_thumbnail(t)
    IN  IF c1.raised
        THEN [through |-> FALSE, view |-> "exception", current |-> cur,
              fetch |-> NoFetch, drew |-> cur = Unset]
        ELSE IF c1.pt = None
        THEN [through |-> FALSE, view |-> "error", current |-> None,
              fetch |-> NoFetch, drew |-> cur = Unset]
        ELSE [through |-> TRUE, view |-> "image", current |-> c1.pt,
              fetch |-> th, drew |-> cur = Unset]

\* Lines 147-162 of a run that starts with st.session_state.current = cur:
\* draw when the key is absent (d1), stop on no point, fetch the thumbnail (t)
\* and, when it does not load, draw again (d2) and rerun.  through says
\* whether the run went on to the caption and the buttons.
SamplingLoop(cur, d1, t, d2) ==
    LET c1 == IF cur = Unset THEN get_random_valid_point(d1)
              ELSE [raised |-> FALSE, pt |-> cur, draws |-> 0]
        th == fetch_valid_thumbnail(t)
        c2 == get_random_valid_point(d2)
        first == cur = Unset
    IN  IF c1.raised
        THEN [through |-> FALSE, view |-> "exception", current |-> cur,
              fetch |-> NoFetch, drew |-> first]
        ELSE IF c1.pt = None
        THEN [through |-> FALSE, view |-> "error", current |-> None,
              fetch |-> NoFetch, drew |-> first]
        ELSE IF th.img = 0
        THEN IF c2.raised
             THEN [through |-> FALSE, view |-> "exception", current |-> c1.pt,
                   fetch |-> th, drew |-> TRUE]
             ELSE [through |-> FALSE, view |-> "rerun", current |-> c2.pt,
                   fetch |-> th, drew |-> TRUE]
        ELSE [through |-> TRUE, view |-> "image", current |-> c1.pt,
              fetch |-> th, drew |-> first]

\* The draw sequences a run may need: only a run that draws reads them.
FirstDraws(cur) == IF cur = Unset THEN DrawChoices ELSE {DrawSeq(1, "P1", "0.3")}

\* What a run that saves nothing leaves in the session.
EndRun(s, ev, v, cur, f, dr) ==
    /\ event' = [event EXCEPT ![s] = ev]
    /\ drew' = [drew EXCEPT ![s] = dr]
    /\ view' = [view EXCEPT ![s] = v]
    /\ current' = [current EXCEPT ![s] = cur]
    /\ fetch' = [fetch EXCEPT ![s] = f]
    /\ reported' = [reported EXCEPT ![s] = 0]
    /\ UNCHANGED <<tool, live, steady, files, pc, initialized, records, loaded, feats,
                   caption, thumbm, retry>>

Idle(s, t) == s \in live /\ tool = t /\ pc[s] = "idle"

\* Landing page, no button pressed: st.stop().
LandingRerun(s) ==
    /\ Idle(s, "sampler") /\ ~initialized[s]
    /\ EndRun(s, "rerun", "landing", current[s], NoFetch, FALSE)

\* Start Sampling: initialized = True, current = get_random_valid_point(),
\* st.rerun().
Start(s) ==
    /\ Idle(s, "sampler") /\ ~initialized[s]
    /\ \E d \in DrawChoices :
         LET c == get_random_valid_point(d) IN
           /\ event' = [event EXCEPT ![s] = "start"]
           /\ initialized' = [initialized EXCEPT ![s] = TRUE]
           /\ view' = [view EXCEPT ![s] = IF c.raised THEN "exception" ELSE "rerun"]
           /\ current' = [current EXCEPT ![s] = IF c.raised THEN current[s] ELSE c.pt]
    /\ drew' = [drew EXCEPT ![s] = TRUE]
    /\ reported' = [reported EXCEPT ![s] = 0]
    /\ UNCHANGED <<tool, live, steady, files, pc, records, loaded, feats, caption, thumbm,
                   fetch, retry>>

\* A run with no button pressed.
PlainRun(s, ev) ==
    \E d1 \in FirstDraws(current[s]), t \in ThumbChoices, d2 \in DrawChoices :
       LET r == SamplingLoop(current[s], d1, t, d2)
       IN  EndRun(s, ev, r.view, r.current, r.fetch, r.drew)

\* The run st.rerun() starts.
AutoRerun(s) ==
    /\ Idle(s, "sampler") /\ initialized[s] /\ view[s] = "rerun"
    /\ PlainRun(s, "auto")

\* The run a widget change starts (thumbnail size, sample scale, state, year).
Rerun(s) ==
    /\ Idle(s, "sampler") /\ initialized[s]
    /\ view[s] \in {"image", "error", "exception"}
    /\ PlainRun(s, "rerun")

\* Skip / Random New.
Skip(s) ==
    /\ Idle(s, "sampler") /\ initialized[s] /\ view[s] = "image"
    /\ \E t \in ThumbChoices, d2 \in DrawChoices, d3 \in DrawChoices :
         LET r == SamplingLoop(current[s], d2, t, d2)
             c == get_random_valid_point(d3)
         IN  IF ~r.through
             THEN EndRun(s, "skip", r.view, r.current, r.fetch, r.drew)
             ELSE IF c.raised
             THEN EndRun(s, "skip", "exception", r.current, r.fetch, TRUE)
             ELSE EndRun(s, "skip", "rerun", c.pt, r.fetch, TRUE)

\* Submit & Next, up to the call of the backend: the run has loaded the JSON
\* file (lines 51-56) and, with a caption that is not blank, goes on to sample.
Submit(s) ==
    /\ Idle(s, "sampler") /\ initialized[s] /\ view[s] = "image"
    /\ \E t \in ThumbChoices, d2 \in DrawChoices, c \in Captions, th \in ThumbMeters :
         LET r == SamplingLoop(current[s], d2, t, d2)
             go == r.through /\ Strip(c) # <<>>
         IN  /\ event' = [event EXCEPT ![s] = "submit"]
             /\ caption' = [caption EXCEPT ![s] = c]
             /\ thumbm' = [thumbm EXCEPT ![s] = th]
             /\ view' = [view EXCEPT ![s] = r.view]
             /\ current' = [current EXCEPT ![s] = r.current]
             /\ fetch' = [fetch EXCEPT ![s] = r.fetch]
             /\ drew' = [drew EXCEPT ![s] = r.drew]
             /\ pc' = [pc EXCEPT ![s] = IF go THEN "loaded" ELSE "idle"]
             /\ records' = [records EXCEPT ![s] = IF go THEN LoadRecords(json) ELSE <<>>]
             /\ loaded' = [loaded EXCEPT ![s] = IF go THEN json ELSE NoJson]
    /\ reported' = [reported EXCEPT ![s] = 0]
    /\ UNCHANGED <<tool, live, steady, files, initialized, feats, retry>>

\* ------------------------------------------------------- picker: one run
\* No click yet, or a click and no button.
PickerRerun(s) ==
    /\ Idle(s, "picker")
    /\ EndRun(s, "rerun", "map", current[s], NoFetch, FALSE)

\* Save Sample, up to the call of the backend.
PickerSave(s) ==
    /\ Idle(s, "picker")
    /\ \E c \in Captions, th \in ThumbMeters :
         /\ event' = [event EXCEPT ![s] = "save"]
         /\ caption' = [caption EXCEPT ![s] = c]
         /\ thumbm' = [thumbm EXCEPT ![s] = th]
         /\ pc' = [pc EXCEPT ![s] = "loaded"]
         /\ records' = [records EXCEPT ![s] = LoadRecords(json)]
         /\ loaded' = [loaded EXCEPT ![s] = json]
    /\ reported' = [reported EXCEPT ![s] = 0]
    /\ UNCHANGED <<tool, live, steady, files, view, initialized, current, feats,
                   fetch, drew, retry>>

\* ---------------------------------------------------- the save, both tools
SAMPLE_SCALE == CHOOSE x \in ScaleChoices : TRUE

\* feats = samples.getInfo()["features"]; the loop that appends; and
\* open(JSON_PATH, "w"), which empties the file.
Sample(s) ==
    /\ s \in live /\ pc[s] = "loaded"
    /\ \E fl \in FeatureChoices :
         /\ Len(records[s]) + Len(fl) <= MaxRecords
         /\ feats' = [feats EXCEPT ![s] = fl]
         /\ records' = [records EXCEPT ![s] =
                AppendFeats(records[s], fl, caption[s], thumbm[s], SAMPLE_SCALE)]
    /\ json' = OpenedJson
    /\ pc' = [pc EXCEPT ![s] = "json_open"]
    /\ UNCHANGED <<tool, live, steady, parquet, view, initialized, current, loaded, caption,
                   thumbm, event, fetch, drew, reported, retry>>

\* getInfo() raises: the run ends with the exception, nothing is written.
SampleError(s) ==
    /\ s \in live /\ pc[s] = "loaded"
    /\ pc' = [pc EXCEPT ![s] = "idle"]
    /\ records' = [records EXCEPT ![s] = <<>>]
    /\ loaded' = [loaded EXCEPT ![s] = NoJson]
    /\ event' = [event EXCEPT ![s] = "sample_error"]
    /\ caption' = [caption EXCEPT ![s] = <<>>]
    /\ UNCHANGED <<tool, live, steady, files, view, initialized, current, feats,
                   thumbm, fetch, drew, reported, retry>>

\* json.dump(records, ...) to its end.
Dump(s) ==
    /\ s \in live /\ pc[s] = "json_open"
    /\ json' = DumpedJson(records[s])
    /\ pc' = [pc EXCEPT ![s] = "json_written"]
    /\ UNCHANGED <<tool, live, steady, parquet, view, initialized, current, records, loaded,
                   feats, caption, thumbm, event, fetch, drew, reported, retry>>

\* The records a run appended to what it loaded.
Added(s) == SubSeq(records[s], Len(LoadRecords(loaded[s])) + 1, Len(records[s]))

\* The parquet write, st.success(f"Saved {len(feats)} ..."), and in the
\* sampler the next point and st.rerun().
Persist(s) ==
    /\ s \in live /\ pc[s] = "json_written"
    /\ parquet' = WriteParquet(tool, records[s])
    /\ reported' = [reported EXCEPT ![s] = Len(feats[s])]
    /\ pc' = [pc EXCEPT ![s] = "idle"]
    /\ records' = [records EXCEPT ![s] = <<>>]
    /\ loaded' = [loaded EXCEPT ![s] = NoJson]
    /\ feats' = [feats EXCEPT ![s] = <<>>]
    /\ event' = [event EXCEPT ![s] = "saved"]
    /\ drew' = [drew EXCEPT ![s] = tool = "sampler"]
    /\ IF tool = "sampler"
       THEN \E d \in DrawChoices :
              LET c == get_random_valid_point(d) IN
                /\ view' = [view EXCEPT ![s] = IF c.raised THEN "exception" ELSE "rerun"]
                /\ current' = [current EXCEPT ![s] = IF c.raised THEN current[s] ELSE c.pt]
       ELSE UNCHANGED <<view, current>>
    /\ caption' = [caption EXCEPT ![s] = <<>>]
    /\ UNCHANGED <<tool, live, steady, json, initialized, thumbm, fetch, retry>>

\* Mutant: the JSON file is still unflushed while the parquet file is written.
Mut_Writers == { s \in live : pc[s] \in {"json_open", "json_written"} }

\* The server process dies: every session is gone.  A dump in progress
\* leaves the part of the array written so far.
Writers == { s \in live : pc[s] = "json_open" }

Crash ==
    /\ IF Writers = {} THEN json' = json
       ELSE \E s \in Writers : \E k \in 0..Len(records[s]) :
               json' = TornJson(records[s], k)
    /\ pc' = [s \in Sessions |-> "idle"]
    /\ view' = [s \in Sessions |-> FirstView(tool)]
    /\ initialized' = [s \in Sessions |-> FALSE]
    /\ current' = [s \in Sessions |-> Unset]
    /\ records' = [s \in Sessions |-> <<>>]
    /\ loaded' = [s \in Sessions |-> NoJson]
    /\ feats' = [s \in Sessions |-> <<>>]
    /\ caption' = [s \in Sessions |-> <<>>]
    /\ fetch' = [s \in Sessions |-> NoFetch]
    /\ drew' = [s \in Sessions |-> FALSE]
    /\ event' = [s \in Sessions |-> IF s \in live THEN "crashed" ELSE "none"]
    /\ reported' = [s \in Sessions |-> 0]
    /\ UNCHANGED <<tool, live, steady, parquet, thumbm, retry>>

Next ==
    \/ \E s \in Sessions : LandingRerun(s)
    \/ \E s \in Sessions : Start(s)
    \/ \E s \in Sessions : AutoRerun(s)
    \/ \E s \in Sessions : Rerun(s)
    \/ \E s \in Sessions : Skip(s)
    \/ \E s \in Sessions : Submit(s)
    \/ \E s \in Sessions : PickerRerun(s)
    \/ \E s \in Sessions : PickerSave(s)
    \/ \E s \in Sessions : Sample(s)
    \/ \E s \in Sessions : SampleError(s)
    \/ \E s \in Sessions : Dump(s)
    \/ \E s \in Sessions : Persist(s)
    \/ Crash

\* One session.
Spec == Init /\ [][Next]_vars

\* Two sessions on the same two files.
SpecConc == InitConc /\ [][Next]_vars

\* One session and fair reruns: st.rerun() starts the next run at once, with
\* no interaction needed, so a scheduled rerun is always executed.
FairSpec == Spec /\ \A s \in Sessions : WF_vars(AutoRerun(s))

\* ------------------------------------------- the retry loops on their own
\* Every sequence of draws, every sequence of thumbnail attempts.
InitRetry ==
    /\ InitWith({1}, {"sampler"}, FALSE)
    /\ \/ \E d \in [1..max_tries -> Draw] : retryIn = [kind |-> "point", seq |-> d]
       \/ \E t \in [1..tries -> Resp] : retryIn = [kind |-> "thumb", seq |-> t]

CallPoint ==
    /\ retryIn.kind = "point" /\ retryOut = NoRetry
    /\ retryOut' = [kind |-> "point", res |-> get_random_valid_point(retryIn.seq)]
    /\ UNCHANGED <<tool, live, steady, files, session, retryIn>>

CallThumb ==
    /\ retryIn.kind = "thumb" /\ retryOut = NoRetry
    /\ retryOut' = [kind |-> "thumb", res |-> fetch_valid_thumbnail(retryIn.seq)]
    /\ UNCHANGED <<tool, live, steady, files, session, retryIn>>

NextRetry == CallPoint \/ CallThumb

SpecRetry == InitRetry /\ [][NextRetry]_vars

\* ===================================================================
\* Properties
\* ===================================================================
IsPrefix(a, b) == Len(a) <= Len(b) /\ SubSeq(b, 1, Len(a)) = a

\* A caption with nothing but white space.
IsBlank(c) == \A i \in 1..Len(c) : c[i] = SP

Fields == {"lon", "lat", "caption", "alphaearth", "thumb_m", "sample_scale"}

\* The value row i of a table holds under column name c.
HasColumn(p, c) == \E k \in 1..Len(p.columns) : p.columns[k] = c
Cell(p, i, c) == p.rows[i][CHOOSE k \in 1..Len(p.columns) : p.columns[k] = c]

\* The JSON file and the parquet snapshot hold the same records, row by row.
SameRecords(j, p) ==
    /\ j.exists /\ j.complete /\ p.exists
    /\ Len(j.recs) = Len(p.rows)
    /\ \A i \in 1..Len(j.recs) : \A c \in Fields :
          HasColumn(p, c) /\ Cell(p, i, c) = j.recs[i][c]

\* The table holds exactly the list recs.
HoldsList(p, recs) ==
    IF recs = <<>> THEN p.rows = <<>> ELSE SameRecords(DumpedJson(recs), p)

\* Steps of session s: the dump that ends its JSON write, the end of its
\* save, a crash while it stands at pc value at.
DumpStep(s) == pc[s] = "json_open" /\ pc'[s] = "json_written"
SavedStep(s) == pc[s] = "json_written" /\ event'[s] = "saved"
CrashStep(s, at) == pc[s] = at /\ event'[s] = "crashed"

\* -------------------------------------------------------------------
\* C1: append-only.  The record list in the JSON file after a save is the
\* list the file held when the run loaded it, unchanged and in order,
\* followed by the newly sampled records, in whatever state the run found
\* the file.
C1_AppendOnly ==
    [][\A s \in Sessions :
          DumpStep(s) => json'.recs = loaded[s].recs \o Added(s)]_vars

\* -------------------------------------------------------------------
\* C2: after a save that ran to its end, the JSON file and the parquet
\* snapshot hold the same records in the same order, field by field.
C2_FilesInSync ==
    \A s \in live : event[s] = "saved" => SameRecords(json, parquet)

C2_Witness ==
    \E s \in live :
       /\ event[s] = "saved" /\ tool = "sampler"
       /\ Len(json.recs) >= 2 /\ Len(parquet.rows) >= 2

\* -------------------------------------------------------------------
\* C3: a save grows the persisted rows by exactly the number of features
\* the backend returned, one record per feature in the order returned, and
\* reports that number.
C3_OnePerFeature ==
    [][\A s \in Sessions :
          SavedStep(s) =>
             LET old == LoadRecords(loaded[s])
                 n == Len(feats[s])
             IN  /\ Len(json'.recs) = Len(old) + n
                 /\ Len(parquet'.rows) = Len(old) + n
                 /\ reported'[s] = n
                 /\ IsPrefix(old, json'.recs)
                 /\ \A i \in 1..n :
                       /\ json'.recs[Len(old) + i].lon
                             = feats[s][i].geometry.coordinates[1]
                       /\ json'.recs[Len(old) + i].lat
                             = feats[s][i].geometry.coordinates[2]]_vars

C3_Witness ==
    \E s \in live :
       event[s] = "saved" /\ reported[s] >= 2 /\ Len(json.recs) >= 2

\* -------------------------------------------------------------------
\* C4: every record appended by a save has an alphaearth vector of 64
\* entries, entry k being the feature's value for band k-1, or None when
\* the feature lacks that band.
VectorOK(v) == Len(v) = 64

C4_VectorLength ==
    /\ \A i \in 1..Len(json.recs) : VectorOK(json.recs[i].alphaearth)
    /\ \A i \in 1..Len(parquet.rows) : VectorOK(Cell(parquet, i, "alphaearth"))
    /\ \A s \in live :
          /\ \A i \in 1..Len(records[s]) : VectorOK(records[s][i].alphaearth)
          /\ pc[s] \in {"json_open", "json_written"} =>
                \A i \in 1..Len(feats[s]) : \A k \in 1..64 :
                   LET v == Added(s)[i].alphaearth[k]
                       f == feats[s][i].properties
                   IN  IF (k - 1) \in DOMAIN f THEN v = f[k - 1] ELSE v = None

C4_Witness ==
    /\ json.complete /\ parquet.exists
    /\ \E i \in 1..Len(json.recs) : json.recs[i].alphaearth[1] = None
    /\ \E i \in 1..Len(json.recs) : json.recs[i].alphaearth[1] # None

\* -------------------------------------------------------------------
\* C5: after the 'Could not find visible imagery' error, a later
\* interaction in the same session draws a new random point.
C5_RedrawsAfterError ==
    [][\A s \in Sessions :
          (view[s] = "error" /\ event'[s] = "rerun") => drew'[s]]_vars

Covered(d) == d.val # None
Loads(r) == ~r.raised /\ r.status = 200 /\ r.size > 10000 /\ r.opens

C7_BoundedRetries ==
    /\ retryOut.kind = "point" =>
          LET d == retryIn.seq
              r == retryOut.res
          IN  /\ r.draws \in 1..6
              /\ ~r.raised =>
                    /\ r.pt # None =>
                          /\ d[r.draws].pt = r.pt /\ Covered(d[r.draws])
                          /\ \A j \in 1..(r.draws - 1) : ~Covered(d[j])
                    /\ r.pt = None <=> \A j \in 1..6 : ~Covered(d[j])
    /\ retryOut.kind = "thumb" =>
          LET t == retryIn.seq
              r == retryOut.res
          IN  /\ r.attempts \in 1..4
              /\ r.img # 0 =>
                    /\ r.img = r.attempts /\ Loads(t[r.img])
                    /\ \A j \in 1..(r.img - 1) : ~Loads(t[j])
              /\ r.img = 0 <=> \A j \in 1..4 : ~Loads(t[j])

C7_Witness ==
    /\ retryOut.kind = "thumb" /\ retryOut.res.img = 4
    /\ retryIn.seq[1].raised /\ retryIn.seq[2].status # 200
    /\ retryIn.seq[3].size = 10000

\* -------------------------------------------------------------------
\* C8, as stated: without further input a session whose run was scheduled
\* by st.rerun() eventually shows an image or stops with the error (an
\* exception page and a restart of the server are taken as ends too).
C8_RetryEnds ==
    \A s \in Sessions :
       (s \in live /\ view[s] = "rerun")
          ~> (view[s] \in {"image", "error", "exception", "landing"})

\* C8, amended: a run makes at most 4 thumbnail fetches; a run whose fetch
\* loads no image after its 4 attempts draws a new point and schedules a
\* rerun; the image is shown only with a fetch that loaded, the error only
\* with no point.  Nothing bounds the number of reruns.
C8_RetryPerRun ==
    \A s \in live :
       /\ fetch[s].attempts <= 4
       /\ view[s] = "image" => fetch[s].img >= 1 /\ current[s] \in Points
       /\ view[s] = "error" => current[s] = None
       /\ fetch[s].img = 0 /\ fetch[s].attempts > 0 =>
             /\ fetch[s].attempts = 4 /\ drew[s]
             /\ view[s] \in {"rerun", "exception"}

C8_Witness ==
    \E s \in live :
       /\ view[s] = "rerun" /\ event[s] = "auto"
       /\ fetch[s].img = 0 /\ fetch[s].attempts = 4 /\ current[s] \in Points

\* -------------------------------------------------------------------
\* C9, as stated: a Submit with a blank caption keeps the current point.
C9_BlankSubmitKeepsPoint ==
    [][\A s \in Sessions :
          (event'[s] = "submit" /\ IsBlank(caption'[s]) /\ pc'[s] = "idle")
             => current'[s] = current[s]]_vars

\* C9, amended: in the sampler only a Submit whose caption is not blank
\* changes a file, every persisted record has a caption that is not empty,
\* and a Submit with a blank caption keeps the current point when the run's
\* thumbnail fetch loaded.
SamplerSaving(s) ==
    /\ event[s] = "submit" /\ ~IsBlank(caption[s])
    /\ pc[s] \in {"loaded", "json_open", "json_written"}

C9_OnlySubmitWrites ==
    [][tool = "sampler" =>
         /\ files' # files => \E s \in live : SamplerSaving(s)
         /\ \A i \in 1..Len(json'.recs) : json'.recs[i].caption # <<>>
         /\ \A i \in 1..Len(parquet'.rows) : Cell(parquet', i, "caption") # <<>>
         /\ \A s \in Sessions :
               ( /\ event'[s] = "submit" /\ IsBlank(caption'[s])
                 /\ pc'[s] = "idle" /\ fetch'[s].img # 0 )
                  => current'[s] = current[s] /\ view'[s] = "image"]_vars

C9_Witness ==
    \E s \in live :
       /\ tool = "sampler" /\ event[s] = "submit" /\ IsBlank(caption[s])
       /\ view[s] = "image" /\ Len(json.recs) >= 1 /\ parquet.exists

\* -------------------------------------------------------------------
\* C10: no session's save drops records another session persisted since
\* this session loaded the file: what the file holds when a save opens it
\* is kept, in order, at the front of what the save writes.
C10_NoLostUpdate ==
    [][\A s \in Sessions :
          (pc[s] = "loaded" /\ pc'[s] = "json_open")
             => IsPrefix(LoadRecords(json), records'[s])]_vars

====
